---- MODULE Spec2Model ----
(***************************************************************************)
(* A model of the organelle runtime: the leaf helper of src/src/soma.rs    *)
(* (Soma, Eukaryote) and the composite node of src/src/organelle.rs        *)
(* (Organelle: add_soma drive tasks, init and its routing task,            *)
(* update_node, process_impulses, into_future).                            *)
(*                                                                         *)
(* The hierarchy that is modelled is the smallest one with a nested        *)
(* organelle that has a main and a non-main child.  Two builds of it are   *)
(* initial states: "wired", where B holds BM only and O connects M to B,   *)
(* and "wide", where B holds BM and BX and nothing is connected:           *)
(*                                                                         *)
(*     O  (outermost, run as a future, organelle handle TOP)               *)
(*     |-- M    main child of O, a leaf                                    *)
(*     `-- B    a nested organelle                                         *)
(*         |-- BM   main child of B, a leaf                                *)
(*         `-- BX   a non-main child of B, a leaf                          *)
(*                                                                         *)
(* Every task the code spawns on the reactor is a process of the model:    *)
(* the seeding task of into_future, the process_impulses loop, one drive   *)
(* task per child, one routing task per organelle and one send task per    *)
(* update_node call or effector send.                                      *)
(***************************************************************************)
EXTENDS Integers, Sequences, FiniteSets, Bags, TLC

(***************************************************************************)
(* Bounds of the model.  The three channel capacities stand for the        *)
(* capacities 10, 10 and 100 of the code, scaled down so that full         *)
(* channels are reached within the traffic bounds below.                   *)
(***************************************************************************)
OwnCap == 2         \* mpsc::channel(10) of Organelle::new
ChildCap == 2       \* mpsc::channel(10) of Organelle::add_soma
QueueCap == 2       \* mpsc::channel(100) of Organelle::init
MaxSend == 1        \* Payloads the leaves may emit in one run
MaxStop == 1        \* Stops the leaves may emit in one run
MaxFail == 1        \* nucleus updates that may return an error in one run
MaxFlow == 2        \* Payloads the leaves may emit in a run that has no Stop
MaxImpulses == 4    \* impulses applied to the stand-alone leaf helper

(***************************************************************************)
(* Handles, impulses, errors                                               *)
(***************************************************************************)
None == "None"
TOP == "TOP"        \* the handle into_future mints for the outermost organelle
EXT == "EXT"        \* a handle that names no node of the hierarchy

Orgs == {"O", "B"}
Children == {"M", "B", "BM", "BX"}
Leaves == {"M", "BM", "BX"}

\* the organelle a child was added to with add_soma
OrgOf(h) == IF h \in {"M", "B"} THEN "O" ELSE "B"

\* the channels: an organelle's own inbound channel (sender/receiver of new),
\* a child's inbound channel (add_soma) and an organelle's routing queue (init)
Own(g) == "own_" \o g
Ch(h) == "ch_" \o h
Rq(g) == "rq_" \o g
OwnIds == {Own(g) : g \in Orgs}
ChIds == {Ch(h) : h \in Children}
RqIds == {Rq(g) : g \in Orgs}
QIds == OwnIds \cup ChIds \cup RqIds

Cap(c) == CASE c \in OwnIds -> OwnCap
            [] c \in ChIds -> ChildCap
            [] OTHER -> QueueCap

\* the Signal/Synapse types an impulse is expressed in: an organelle speaks
\* the protocol of its main soma (Organelle<S>), a child its own
Proto(h) == CASE h \in {"O", "M"} -> "pM"
              [] h \in {"B", "BM"} -> "pBM"
              [] OTHER -> "pBX"
\* the protocol of the impulses a channel carries: that of the organelle
\* that made it
QProto(c) == IF c \in {Own("O"), Rq("O"), Ch("M"), Ch("B")} THEN Proto("O") ELSE Proto("B")

\* an impulse; the fields a variant does not have are None (chain: 0)
Imp(t, src, dest, val, proto, chain) ==
    [t |-> t, src |-> src, dest |-> dest, val |-> val, proto |-> proto, chain |-> chain]
\* Init(parent, Effector { this_soma, sender })
InitImp(parent, this_soma, sender, p) == Imp("Init", parent, this_soma, sender, p, 0)
AddInput(input, role, p) == Imp("AddInput", input, None, role, p, 0)
AddOutput(output, role, p) == Imp("AddOutput", output, None, role, p, 0)
StartImp(p) == Imp("Start", None, None, None, p, 0)
Payload(src, dest, msg, p) == Imp("Payload", src, dest, msg, p, 0)
SignalImp(src, msg, p) == Imp("Signal", src, None, msg, p, 0)
ProbeImp(dest, p) == Imp("Probe", None, dest, None, p, 0)
StopImp(p) == Imp("Stop", None, None, None, p, 0)
\* Err(e): the error e is its message (val), the node whose update returned
\* it (src) and the number of SomaError links chained onto it (chain)
ErrImp(at, cause, chain, p) == Imp("Err", at, None, cause, p, chain)

\* convert_protocol: the payload fields are converted to the other protocol,
\* the handle fields are left as they are
ConvertProtocol(imp, p) == [imp EXCEPT !.proto = p]

\* with_chain left out: the error is passed on as it came
WithChain_left_out(e) == e

\* Error::with_chain(e, ErrorKind::SomaError)
WithChain(e) == [e EXCEPT !.chain = @ + 1]

(***************************************************************************)
(* The leaf helper (src/src/soma.rs)                                       *)
(***************************************************************************)
NoEffector == [this_soma |-> None, sender |-> None]
EffectorOf(imp) == [this_soma |-> imp.dest, sender |-> imp.val]

\* a ConstraintMap entry: (ConstraintHandle, Constraint); the handle is
\* Empty, One(h) or Many(hs), held as its tag k and the handles hs
Slot(c) ==
    [c |-> c, k |-> IF c = "RequireOne" THEN "Empty" ELSE "Many", hs |-> <<>>]

RECURSIVE create_roles_from(_, _, _)
create_roles_from(constraints, i, map) ==
    IF i > Len(constraints) THEN [ok |-> TRUE, map |-> map]
    ELSE LET c == constraints[i]
         IN IF c.role \in DOMAIN map
            THEN [ok |-> FALSE, map |-> map]
            ELSE create_roles_from(constraints, i + 1, (c.role :> Slot(c.c)) @@ map)

create_roles(constraints) == create_roles_from(constraints, 1, <<>>)

\* Soma::new
SomaNew(inputs, outputs) ==
    [effector |-> NoEffector,
     inputs |-> create_roles(inputs).map,
     outputs |-> create_roles(outputs).map]

\* add_role that replaces the handle of a RequireOne role that is bound
add_role_replacing(map, cell, role) ==
    IF role \in DOMAIN map
    THEN IF map[role].c = "RequireOne"
         THEN [ok |-> map[role].k = "Empty",
               err |-> IF map[role].k = "Empty" THEN None
                       ELSE "only one cell can be assigned to role",
               map |-> [map EXCEPT ![role] = [@ EXCEPT !.k = "One", !.hs = <<cell>>]]]
         ELSE [ok |-> TRUE, err |-> None,
               map |-> [map EXCEPT ![role] = [@ EXCEPT !.hs = Append(@, cell)]]]
    ELSE [ok |-> FALSE, err |-> "unexpected role", map |-> map]

\* add_role that puts a new Variadic handle in front of the others
add_role_in_front(map, cell, role) ==
    IF role \in DOMAIN map
    THEN IF map[role].c = "RequireOne"
         THEN IF map[role].k = "Empty"
              THEN [ok |-> TRUE, err |-> None,
                    map |-> [map EXCEPT ![role] = [@ EXCEPT !.k = "One", !.hs = <<cell>>]]]
              ELSE [ok |-> FALSE, err |-> "only one cell can be assigned to role", map |-> map]
         ELSE [ok |-> TRUE, err |-> None,
               map |-> [map EXCEPT ![role] = [@ EXCEPT !.hs = <<cell>> \o @]]]
    ELSE [ok |-> FALSE, err |-> "unexpected role", map |-> map]

\* Soma::add_role
add_role(map, cell, role) ==
    IF role \in DOMAIN map
    THEN IF map[role].c = "RequireOne"
         THEN IF map[role].k = "Empty"
              THEN [ok |-> TRUE, err |-> None,
                    map |-> [map EXCEPT ![role] = [@ EXCEPT !.k = "One", !.hs = <<cell>>]]]
              ELSE [ok |-> FALSE, err |-> "only one cell can be assigned to role", map |-> map]
         ELSE [ok |-> TRUE, err |-> None,
               map |-> [map EXCEPT ![role] = [@ EXCEPT !.hs = Append(@, cell)]]]
    ELSE [ok |-> FALSE, err |-> "unexpected role", map |-> map]

\* verify_constraints that lets an empty RequireOne slot pass
verify_constraints_lax(map) ==
    \A role \in DOMAIN map : map[role].c = "RequireOne" => map[role].k \in {"One", "Empty"}

verify_constraints(map) ==
    \A role \in DOMAIN map : map[role].c = "RequireOne" => map[role].k = "One"

\* Soma::get_var (var_input, var_output): the handles of a Variadic role
get_var(map, role) ==
    IF role \in DOMAIN map /\ map[role].c = "Variadic"
    THEN [ok |-> TRUE, cells |-> map[role].hs]
    ELSE [ok |-> FALSE, cells |-> <<>>]

verify(s) ==
    IF s.effector = NoEffector THEN [ok |-> FALSE, err |-> "init was never called"]
    ELSE IF ~verify_constraints(s.inputs) \/ ~verify_constraints(s.outputs)
    THEN [ok |-> FALSE, err |-> "role does not meet constraint"]
    ELSE [ok |-> TRUE, err |-> None]

\* update that consumes the impulses it has no arm for
SomaUpdate_consuming(s, msg) ==
    CASE msg.t = "Init" ->
           IF s.effector = NoEffector
           THEN [ok |-> TRUE, err |-> None, some |-> FALSE, msg |-> msg,
                 soma |-> [s EXCEPT !.effector = EffectorOf(msg)]]
           ELSE [ok |-> FALSE, err |-> "init called twice", some |-> FALSE, msg |-> msg,
                 soma |-> s]
      [] msg.t = "AddInput" ->
           LET r == add_role(s.inputs, msg.src, msg.val)
           IN [ok |-> r.ok, err |-> r.err, some |-> FALSE, msg |-> msg,
               soma |-> [s EXCEPT !.inputs = r.map]]
      [] msg.t = "AddOutput" ->
           LET r == add_role(s.outputs, msg.src, msg.val)
           IN [ok |-> r.ok, err |-> r.err, some |-> FALSE, msg |-> msg,
               soma |-> [s EXCEPT !.outputs = r.map]]
      [] msg.t = "Start" ->
           LET r == verify(s)
           IN [ok |-> r.ok, err |-> r.err, some |-> r.ok, msg |-> StartImp(msg.proto),
               soma |-> s]
      [] OTHER -> [ok |-> TRUE, err |-> None, some |-> FALSE, msg |-> msg, soma |-> s]

\* Soma::update: ok/err is the Result, some/msg the Option it holds, soma the
\* helper as the call leaves it
SomaUpdate(s, msg) ==
    CASE msg.t = "Init" ->
           IF s.effector = NoEffector
           THEN [ok |-> TRUE, err |-> None, some |-> FALSE, msg |-> msg,
                 soma |-> [s EXCEPT !.effector = EffectorOf(msg)]]
           ELSE [ok |-> FALSE, err |-> "init called twice", some |-> FALSE, msg |-> msg,
                 soma |-> s]
      [] msg.t = "AddInput" ->
           LET r == add_role(s.inputs, msg.src, msg.val)
           IN [ok |-> r.ok, err |-> r.err, some |-> FALSE, msg |-> msg,
               soma |-> [s EXCEPT !.inputs = r.map]]
      [] msg.t = "AddOutput" ->
           LET r == add_role(s.outputs, msg.src, msg.val)
           IN [ok |-> r.ok, err |-> r.err, some |-> FALSE, msg |-> msg,
               soma |-> [s EXCEPT !.outputs = r.map]]
      [] msg.t = "Start" ->
           LET r == verify(s)
           IN [ok |-> r.ok, err |-> r.err, some |-> r.ok, msg |-> StartImp(msg.proto),
               soma |-> s]
      [] OTHER -> [ok |-> TRUE, err |-> None, some |-> TRUE, msg |-> msg, soma |-> s]

(***************************************************************************)
(* The state                                                               *)
(***************************************************************************)
VARIABLES
    nodes,            \* Organelle.nodes: the handles of the children map
    main_hdl,         \* Organelle.main_hdl
    connections,      \* Organelle.connections: the pending (input, output, role)
    parent,           \* Organelle.parent
    effector,         \* Organelle.effector: { this_soma, sender } set by init
    external_sender,  \* the sender the routing task forwards to (effector.sender of Init)
    queue,            \* the content of every channel
    open,             \* whether a channel's receiver is alive
    sends,            \* the send tasks spawned on the reactor and not finished: a bag
    seed,             \* the seeding task of into_future: "init", "start", "done"
    top,              \* the top-level future: state "running", "ok", "err", and its error
    panic,            \* a task has panicked
    rtask,            \* a routing task: "none" (not spawned), "run", "dead" (a send
                      \* of its failed), "ended" (its stream ended)
    rpend,            \* the send a routing task is awaiting: <<>> or <<[to, imp, from]>>
    drive,            \* a drive task: "run", "errsend" (awaiting the send of Err),
                      \* "done" (returned after an error), "ended" (its stream ended)
    derr,             \* the Err impulse a drive task is sending
    leaf,             \* the helper of every leaf
    obs,              \* history: the Init, AddInput, AddOutput and Start impulses
                      \* passed to each child's update, in order
    budget,           \* what the leaves' user code may still do in this run
    soma,             \* a leaf helper on its own (Eukaryote.soma)
    nucleus,          \* history: the impulses handed to its nucleus, in order
    ret,              \* the last Eukaryote::update: the impulse and what came back
    applied           \* history: the impulses applied to it, in order

orgVars == <<nodes, main_hdl, connections, parent, effector, external_sender>>
chanVars == <<queue, open, sends>>
taskVars == <<seed, top, panic, rtask, rpend, drive, derr>>
leafVars == <<leaf, obs, budget>>
somaVars == <<soma, nucleus, ret, applied>>
vars == <<orgVars, chanVars, taskVars, leafVars, somaVars>>

Msgs == {"x"}

C(c, role) == [c |-> c, role |-> role]

\* the constraints the leaves declare when O connects M to B with role r: M
\* has a required output, BM (the face of B) a required input
LeafInputs(h) == IF h = "BM" THEN <<C("RequireOne", "r")>> ELSE <<>>
LeafOutputs(h) == IF h = "M" THEN <<C("RequireOne", "r")>> ELSE <<>>

Conn(input, output, role) == [input |-> input, output |-> output, role |-> role]

\* the handles a leaf's user code addresses a Payload to: its organelle, a
\* local peer, and a node outside its organelle
LeafDests(h) == CASE h = "M" -> {TOP, "B", EXT}
                  [] h = "BM" -> {"B", "BX", "M"}
                  [] OTHER -> {"B", "BM", "M"}

Lifecycle == {"Init", "AddInput", "AddOutput", "Start"}

NoErr == ErrImp(None, None, 0, None)

(***************************************************************************)
(* Organelle (src/src/organelle.rs)                                        *)
(***************************************************************************)
Task(to, imp) == [to |-> to, imp |-> imp]
Spawn(to, imp) == SetToBag({Task(to, imp)})

\* Organelle::update_node: a send task of its own for every impulse
update_node(g, hdl, msg) ==
    IF hdl \in nodes[g]
    THEN [ok |-> TRUE, spawn |-> Spawn(Ch(hdl), msg)]
    ELSE [ok |-> FALSE, spawn |-> EmptyBag]

\* the loop with the two recipients exchanged
RECURSIVE connect_from_exchanged(_, _, _)
connect_from_exchanged(g, i, acc) ==
    IF i > Len(connections[g]) THEN [ok |-> TRUE, spawn |-> acc]
    ELSE LET c == connections[g][i]
             a == update_node(g, c.output, AddOutput(c.output, c.role, Proto(g)))
             b == update_node(g, c.input, AddInput(c.input, c.role, Proto(g)))
         IN IF ~a.ok THEN [ok |-> FALSE, spawn |-> acc]
            ELSE IF ~b.ok THEN [ok |-> FALSE, spawn |-> acc (+) a.spawn]
            ELSE connect_from_exchanged(g, i + 1, acc (+) a.spawn (+) b.spawn)

\* the loop of init over the pending connections, from the i-th on
RECURSIVE connect_from(_, _, _)
connect_from(g, i, acc) ==
    IF i > Len(connections[g]) THEN [ok |-> TRUE, spawn |-> acc]
    ELSE LET c == connections[g][i]
             a == update_node(g, c.input, AddOutput(c.output, c.role, Proto(g)))
             b == update_node(g, c.output, AddInput(c.input, c.role, Proto(g)))
         IN IF ~a.ok THEN [ok |-> FALSE, spawn |-> acc]
            ELSE IF ~b.ok THEN [ok |-> FALSE, spawn |-> acc (+) a.spawn]
            ELSE connect_from(g, i + 1, acc (+) a.spawn (+) b.spawn)

\* the result of an update of organelle g: the Result (ok, err), whether it
\* panicked, the send tasks it spawned, and whether init ran to its end
OrgResult(ok, err, pnc, spawn, init, par, eff) ==
    [ok |-> ok, err |-> err, panic |-> pnc, spawn |-> spawn, init |-> init,
     parent |-> par, effector |-> eff]

\* Organelle::init
init(g, par, eff) ==
    LET organelle_hdl == eff.this_soma
        inits == SetToBag({Task(Ch(hdl), InitImp(organelle_hdl, hdl, Rq(g), Proto(g)))
                             : hdl \in nodes[g]})
        conns == connect_from(g, 1, inits)
    IN OrgResult(conns.ok, IF conns.ok THEN None ELSE "node not found", FALSE,
                 conns.spawn, conns.ok, par, eff)

\* Organelle::start
start(g) ==
    OrgResult(TRUE, None, FALSE,
              SetToBag({Task(Ch(node), StartImp(Proto(g))) : node \in nodes[g]}),
              FALSE, None, NoEffector)

\* to_main that hands the impulse to every child
to_main_all(g, msg) ==
    OrgResult(TRUE, None, FALSE,
              SetToBag({Task(Ch(node), msg) : node \in nodes[g]}),
              FALSE, None, NoEffector)

\* Organelle::add_input, Organelle::add_output and the Signal arm of update
to_main(g, msg) ==
    LET r == update_node(g, main_hdl[g], msg)
    IN OrgResult(r.ok, IF r.ok THEN None ELSE "node not found", FALSE, r.spawn,
                 FALSE, None, NoEffector)

\* Soma for Organelle: update
OrgUpdate(g, msg) ==
    CASE msg.t = "Init" -> init(g, msg.src, EffectorOf(msg))
      [] msg.t \in {"AddInput", "AddOutput", "Signal"} -> to_main(g, msg)
      [] msg.t = "Start" -> start(g)
      [] OTHER -> OrgResult(FALSE, None, TRUE, EmptyBag, FALSE, None, NoEffector)

\* actual_src that never presents the main soma as the organelle
actual_src_kept(g, src, dest) == src

\* actual_src that presents the main soma as the organelle to every recipient
actual_src_organelle(g, src, dest) ==
    IF src = main_hdl[g] THEN effector[g].this_soma ELSE src

\* the routing task: the source a Payload is forwarded with
actual_src(g, src, dest) ==
    IF src = main_hdl[g]
    THEN IF dest = effector[g].this_soma \/ dest \in nodes[g]
         THEN src
         ELSE effector[g].this_soma
    ELSE src

\* Route that hands every Payload for a local child to the main child
Route_to_main(g, imp) ==
    CASE imp.t = "Payload" ->
           LET src == actual_src(g, imp.src, imp.dest)
           IN IF imp.dest = effector[g].this_soma \/ imp.dest \in nodes[g]
              THEN Task(Ch(main_hdl[g]), SignalImp(src, imp.val, imp.proto))
              ELSE Task(external_sender[g],
                        ConvertProtocol(Payload(src, imp.dest, imp.val, imp.proto),
                                        QProto(external_sender[g])))
      [] imp.t = "Stop" -> Task(external_sender[g], StopImp(QProto(external_sender[g])))
      [] OTHER -> Task(external_sender[g],
                       ConvertProtocol(imp, QProto(external_sender[g])))

\* Route that forwards a Payload for a node outside as a Signal
Route_signal_out(g, imp) ==
    CASE imp.t = "Payload" ->
           LET src == actual_src(g, imp.src, imp.dest)
           IN IF imp.dest = effector[g].this_soma
              THEN Task(Ch(main_hdl[g]), SignalImp(src, imp.val, imp.proto))
              ELSE IF imp.dest \in nodes[g]
              THEN Task(Ch(imp.dest), SignalImp(src, imp.val, imp.proto))
              ELSE Task(external_sender[g],
                        ConvertProtocol(SignalImp(src, imp.val, imp.proto),
                                        QProto(external_sender[g])))
      [] imp.t = "Stop" -> Task(external_sender[g], StopImp(QProto(external_sender[g])))
      [] OTHER -> Task(external_sender[g],
                       ConvertProtocol(imp, QProto(external_sender[g])))

\* the routing task: the channel an impulse goes to and the impulse sent
Route(g, imp) ==
    CASE imp.t = "Payload" ->
           LET src == actual_src(g, imp.src, imp.dest)
           IN IF imp.dest = effector[g].this_soma
              THEN Task(Ch(main_hdl[g]), SignalImp(src, imp.val, imp.proto))
              ELSE IF imp.dest \in nodes[g]
              THEN Task(Ch(imp.dest), SignalImp(src, imp.val, imp.proto))
              ELSE Task(external_sender[g],
                        ConvertProtocol(Payload(src, imp.dest, imp.val, imp.proto),
                                        QProto(external_sender[g])))
      [] imp.t = "Stop" -> Task(external_sender[g], StopImp(QProto(external_sender[g])))
      [] OTHER -> Task(external_sender[g],
                       ConvertProtocol(imp, QProto(external_sender[g])))

(***************************************************************************)
(* The state after construction: new(reactor, main), add_soma and connect  *)
(* have built the hierarchy, into_future has been called on O, and nothing *)
(* has run yet.  Two hierarchies are built:                                *)
(*   "wired": B holds BM alone, and O connects M to B with role r, which   *)
(*            M declares as a required output and BM as a required input;  *)
(*   "wide":  B holds BM and BX, nothing is connected and no leaf declares *)
(*            a constraint.                                                *)
(* A third one, "remote", is the initial state of RemoteSpec: B holds BM   *)
(* alone and connects it to M, which is a child of O and not of B.         *)
(***************************************************************************)
Builds == {"wired", "wide"}

NoImp == Imp(None, None, None, None, None, 0)
NoRet == [imp |-> NoImp, ok |-> TRUE, hok |-> TRUE, some |-> FALSE, msg |-> NoImp]

SomaIdle ==
    /\ soma = SomaNew(<<>>, <<>>)
    /\ nucleus = <<>>
    /\ ret = NoRet
    /\ applied = <<>>

OrgInit(build, bud) ==
    /\ nodes = [g \in Orgs |-> IF g = "O" THEN {"M", "B"}
                               ELSE IF build = "wide" THEN {"BM", "BX"} ELSE {"BM"}]
    /\ main_hdl = [g \in Orgs |-> IF g = "O" THEN "M" ELSE "BM"]
    /\ connections = [g \in Orgs |->
                        IF g = "O" /\ build = "wired" THEN <<Conn("M", "B", "r")>>
                        ELSE IF g = "B" /\ build = "remote" THEN <<Conn("BM", "M", "r")>>
                        ELSE <<>>]
    /\ parent = [g \in Orgs |-> None]
    /\ effector = [g \in Orgs |-> NoEffector]
    /\ external_sender = [g \in Orgs |-> None]
    /\ queue = [c \in QIds |-> <<>>]
    /\ open = [c \in QIds |-> c \notin RqIds]
    /\ sends = EmptyBag
    /\ seed = "init"
    /\ top = [state |-> "running", err |-> NoErr]
    /\ panic = FALSE
    /\ rtask = [g \in Orgs |-> "none"]
    /\ rpend = [g \in Orgs |-> <<>>]
    /\ drive = [h \in Children |-> "run"]
    /\ derr = [h \in Children |-> NoErr]
    /\ leaf = [h \in Leaves |-> IF build = "wired"
                                THEN SomaNew(LeafInputs(h), LeafOutputs(h))
                                ELSE SomaNew(<<>>, <<>>)]
    /\ obs = [h \in Children |-> <<>>]
    /\ budget = bud

Budget(s, t, f) == [send |-> s, stop |-> t, fail |-> f]

Init ==
    /\ \E build \in Builds : OrgInit(build, Budget(MaxSend, MaxStop, MaxFail))
    /\ SomaIdle

HasRoom(c) == Len(queue[c]) < Cap(c)

(***************************************************************************)
(* into_future: the spawned task that sends Init and then Start to the     *)
(* organelle's own channel; it panics when a send fails.                   *)
(***************************************************************************)
Seed ==
    /\ ~panic
    /\ seed # "done"
    /\ IF open[Own("O")]
       THEN /\ HasRoom(Own("O"))
            /\ queue' = [queue EXCEPT ![Own("O")] =
                   Append(@, IF seed = "init"
                             THEN InitImp(None, TOP, Own("O"), Proto("O"))
                             ELSE StartImp(Proto("O")))]
            /\ seed' = IF seed = "init" THEN "start" ELSE "done"
            /\ UNCHANGED panic
       ELSE /\ panic' = TRUE
            /\ seed' = "done"
            /\ UNCHANGED queue
    /\ UNCHANGED <<orgVars, open, sends, top, rtask, rpend, drive, derr, leafVars, somaVars>>

(***************************************************************************)
(* A send task spawned by update_node or by an effector: it ends when the  *)
(* impulse is in the channel, or when the receiver is gone.                *)
(***************************************************************************)
SendTask ==
    /\ ~panic
    /\ \E s \in BagToSet(sends) :
         /\ sends' = sends (-) SetToBag({s})
         /\ \/ /\ open[s.to]
               /\ HasRoom(s.to)
               /\ queue' = [queue EXCEPT ![s.to] = Append(@, s.imp)]
            \/ /\ ~open[s.to]
               /\ UNCHANGED queue
    /\ UNCHANGED <<orgVars, open, taskVars, leafVars, somaVars>>

(***************************************************************************)
(* What a successful update of organelle g does to g: init stores the      *)
(* parent and the effector and spawns the routing task on a new queue.     *)
(***************************************************************************)
OrgApply(g, r) ==
    IF r.init
    THEN /\ parent' = [parent EXCEPT ![g] = r.parent]
         /\ effector' = [effector EXCEPT ![g] =
                [this_soma |-> r.effector.this_soma, sender |-> Rq(g)]]
         /\ external_sender' = [external_sender EXCEPT ![g] = r.effector.sender]
         /\ rtask' = [rtask EXCEPT ![g] = "run"]
         /\ open' = [open EXCEPT ![Rq(g)] = TRUE]
    ELSE UNCHANGED <<parent, effector, external_sender, rtask, open>>

(***************************************************************************)
(* process_impulses: one turn of the loop of the outermost organelle.      *)
(***************************************************************************)
TopReturn(state, err, spawn) ==
    /\ top' = [state |-> state, err |-> err]
    /\ queue' = [queue EXCEPT ![Own("O")] = <<>>]
    /\ open' = [open EXCEPT ![Own("O")] = FALSE]
    /\ sends' = sends (+) spawn
    /\ UNCHANGED <<orgVars, seed, panic, rtask, rpend, drive, derr, leafVars, somaVars>>

TopPanic ==
    /\ panic' = TRUE
    /\ queue' = [queue EXCEPT ![Own("O")] = Tail(@)]
    /\ UNCHANGED <<orgVars, open, sends, seed, top, rtask, rpend, drive, derr,
                   leafVars, somaVars>>

TopUpdate(msg) ==
    LET r == OrgUpdate("O", msg)
    IN IF r.panic THEN TopPanic
       ELSE IF ~r.ok
       THEN TopReturn("err", WithChain(ErrImp("O", r.err, 0, Proto("O"))), r.spawn)
       ELSE /\ queue' = [queue EXCEPT ![Own("O")] = Tail(@)]
            /\ sends' = sends (+) r.spawn
            /\ OrgApply("O", r)
            /\ UNCHANGED <<nodes, main_hdl, connections, seed, top, panic, rpend,
                           drive, derr, leafVars, somaVars>>

process_impulses ==
    /\ ~panic
    /\ top.state = "running"
    /\ queue[Own("O")] # <<>>
    /\ LET imp == Head(queue[Own("O")])
       IN CASE imp.t \in {"Init", "AddInput", "AddOutput", "Start"} -> TopUpdate(imp)
            [] imp.t = "Payload" ->
                 IF imp.dest # main_hdl["O"] THEN TopPanic
                 ELSE TopUpdate(SignalImp(imp.src, imp.val, imp.proto))
            [] imp.t = "Probe" ->
                 IF imp.dest # main_hdl["O"] THEN TopPanic ELSE TopUpdate(imp)
            [] imp.t = "Stop" -> TopReturn("ok", NoErr, EmptyBag)
            [] imp.t = "Err" -> TopReturn("err", WithChain(imp), EmptyBag)
            [] OTHER -> TopPanic

(***************************************************************************)
(* add_soma: the drive task of a child.                                    *)
(***************************************************************************)
\* the loop going on to the next impulse after an error
DriveFail_continuing(h, cause) ==
    /\ drive' = drive
    /\ derr' = [derr EXCEPT ![h] =
           WithChain(ErrImp(h, cause, 0, QProto(Own(OrgOf(h)))))]

\* update returned an error: the task goes on to send Err(with_chain(e))
DriveFail(h, cause) ==
    /\ drive' = [drive EXCEPT ![h] = "errsend"]
    /\ derr' = [derr EXCEPT ![h] =
           WithChain(ErrImp(h, cause, 0, QProto(Own(OrgOf(h)))))]

\* what the user code of leaf h (Nucleus::update) may do with an impulse the
\* helper hands on: return having sent nothing, send one Payload or a Stop
\* through the effector, or return an error
NucleusOutcomes(h, eff) ==
    {[ok |-> TRUE, emit |-> <<>>, cost |-> Budget(0, 0, 0)]}
    \cup {[ok |-> TRUE, emit |-> <<Payload(eff.this_soma, d, m, QProto(eff.sender))>>,
           cost |-> Budget(1, 0, 0)]
            : <<d, m>> \in IF budget.send > 0 /\ eff # NoEffector
                           THEN LeafDests(h) \X Msgs ELSE {}}
    \cup (IF budget.stop > 0 /\ eff # NoEffector
          THEN {[ok |-> TRUE, emit |-> <<StopImp(QProto(eff.sender))>>,
                 cost |-> Budget(0, 1, 0)]}
          ELSE {})
    \cup (IF budget.fail > 0
          THEN {[ok |-> FALSE, emit |-> <<>>, cost |-> Budget(0, 0, 1)]}
          ELSE {})

\* Effector::send: a send task on the reactor for every impulse emitted
Emit(eff, emit) == IF emit = <<>> THEN EmptyBag ELSE Spawn(eff.sender, emit[1])

\* the drive task of a leaf: Eukaryote::update, the helper first and the
\* nucleus when the helper hands the impulse on
DriveLeaf(h) ==
    /\ ~panic
    /\ drive[h] = "run"
    /\ queue[Ch(h)] # <<>>
    /\ LET imp == ConvertProtocol(Head(queue[Ch(h)]), Proto(h))
           r == SomaUpdate(leaf[h], imp)
       IN /\ queue' = [queue EXCEPT ![Ch(h)] = Tail(@)]
          /\ obs' = [obs EXCEPT ![h] = IF imp.t \in Lifecycle THEN Append(@, imp.t) ELSE @]
          /\ IF ~r.ok
             THEN /\ DriveFail(h, r.err)
                  /\ UNCHANGED <<leaf, budget, sends>>
             ELSE IF ~r.some
             THEN /\ leaf' = [leaf EXCEPT ![h] = r.soma]
                  /\ UNCHANGED <<drive, derr, budget, sends>>
             ELSE \E out \in NucleusOutcomes(h, r.soma.effector) :
                    /\ budget' = Budget(budget.send - out.cost.send,
                                        budget.stop - out.cost.stop,
                                        budget.fail - out.cost.fail)
                    /\ sends' = sends (+) Emit(r.soma.effector, out.emit)
                    /\ IF out.ok
                       THEN /\ leaf' = [leaf EXCEPT ![h] = r.soma]
                            /\ UNCHANGED <<drive, derr>>
                       ELSE /\ DriveFail(h, "nucleus")
                            /\ UNCHANGED leaf
    /\ UNCHANGED <<orgVars, open, seed, top, panic, rtask, rpend, somaVars>>

\* the drive task of a child that is an organelle: Soma for Organelle::update
DriveOrg(h) ==
    /\ ~panic
    /\ drive[h] = "run"
    /\ queue[Ch(h)] # <<>>
    /\ LET imp == ConvertProtocol(Head(queue[Ch(h)]), Proto(h))
           r == OrgUpdate(h, imp)
       IN /\ queue' = [queue EXCEPT ![Ch(h)] = Tail(@)]
          /\ obs' = [obs EXCEPT ![h] = IF imp.t \in Lifecycle THEN Append(@, imp.t) ELSE @]
          /\ sends' = sends (+) r.spawn
          /\ IF r.panic
             THEN /\ panic' = TRUE
                  /\ UNCHANGED <<parent, effector, external_sender, rtask, open, drive, derr>>
             ELSE IF ~r.ok
             THEN /\ DriveFail(h, r.err)
                  /\ UNCHANGED <<parent, effector, external_sender, rtask, open, panic>>
             ELSE /\ OrgApply(h, r)
                  /\ UNCHANGED <<drive, derr, panic>>
    /\ UNCHANGED <<nodes, main_hdl, connections, seed, top, rpend, leaf, budget, somaVars>>

\* the drive task sends the Err on organelle_sender, a clone of the
\* organelle's own sender, and returns: its receiver and its soma are dropped
DriveErrSend(h) ==
    /\ ~panic
    /\ drive[h] = "errsend"
    /\ LET c == Own(OrgOf(h))
       IN /\ ~open[c] \/ HasRoom(c)
          /\ queue' = [queue EXCEPT ![c] = IF open[c] THEN Append(@, derr[h]) ELSE @,
                                    ![Ch(h)] = <<>>]
    /\ open' = [c \in QIds |->
                  IF c = Ch(h) \/ (h \in Orgs /\ c = Own(h)) THEN FALSE ELSE open[c]]
    /\ drive' = [drive EXCEPT ![h] = "done"]
    /\ derr' = [derr EXCEPT ![h] = NoErr]
    /\ UNCHANGED <<orgVars, sends, seed, top, panic, rtask, rpend, leafVars, somaVars>>

(***************************************************************************)
(* init: the routing task of organelle g.  One turn of its loop takes an   *)
(* impulse from the routing queue and awaits the send it calls for.        *)
(***************************************************************************)
RoutingDequeue(g) ==
    /\ ~panic
    /\ rtask[g] = "run"
    /\ rpend[g] = <<>>
    /\ queue[Rq(g)] # <<>>
    /\ LET imp == Head(queue[Rq(g)])
       IN /\ queue' = [queue EXCEPT ![Rq(g)] = Tail(@)]
          /\ IF imp.t \in {"Payload", "Stop", "Err"}
             THEN /\ rpend' = [rpend EXCEPT ![g] =
                         <<[to |-> Route(g, imp).to, imp |-> Route(g, imp).imp,
                            from |-> imp]>>]
                  /\ UNCHANGED panic
             ELSE IF imp.t = "Probe"
             THEN UNCHANGED <<rpend, panic>>
             ELSE /\ panic' = TRUE
                  /\ UNCHANGED rpend
    /\ UNCHANGED <<orgVars, open, sends, seed, top, rtask, drive, derr, leafVars, somaVars>>

RoutingSend(g) ==
    /\ ~panic
    /\ rtask[g] = "run"
    /\ rpend[g] # <<>>
    /\ LET s == rpend[g][1]
       IN \/ /\ open[s.to]
             /\ HasRoom(s.to)
             /\ queue' = [queue EXCEPT ![s.to] = Append(@, s.imp)]
             /\ UNCHANGED <<rtask, open>>
          \/ /\ ~open[s.to]
             /\ rtask' = [rtask EXCEPT ![g] = "dead"]
             /\ queue' = [queue EXCEPT ![Rq(g)] = <<>>]
             /\ open' = [open EXCEPT ![Rq(g)] = FALSE]
    /\ rpend' = [rpend EXCEPT ![g] = <<>>]
    /\ UNCHANGED <<orgVars, sends, seed, top, panic, drive, derr, leafVars, somaVars>>

(***************************************************************************)
(* The end of a stream.  `for imp in rx` ends when the channel is empty    *)
(* and every sender of it is dropped.  A sender lives as long as what      *)
(* holds it: the organelle's fields, a task's captured values, a soma      *)
(* owned by its drive task, an impulse in flight.                          *)
(***************************************************************************)
\* the Organelle value g: the outermost one is owned by the top-level future,
\* a nested one by its drive task, which hands it to update and loses it
\* when update returns an error
StructAlive(g) == IF g = "O" THEN top.state = "running" ELSE drive[g] = "run"

\* who holds a sender of child h's channel: Organelle.nodes, the routing
\* task's clone of nodes, a send task of update_node
SendersOfChild(h) ==
    \/ StructAlive(OrgOf(h))
    \/ rtask[OrgOf(h)] = "run"
    \/ \E s \in BagToSet(sends) : s.to = Ch(h)

\* an Init impulse carries an Effector, whose sender is a clone of queue_tx
CarriesSender(imp, c) == imp.t = "Init" /\ imp.val = c

\* who holds a sender of g's routing queue: Organelle.effector, the effector
\* a running leaf keeps, the external_sender of a nested organelle's routing
\* task, an Init on its way, a send task of Effector::send
SendersOfQueue(g) ==
    \/ StructAlive(g)
    \/ \E h \in nodes[g] \cap Leaves :
          drive[h] = "run" /\ leaf[h].effector.sender = Rq(g)
    \/ \E h \in nodes[g] \cap Orgs :
          rtask[h] = "run" /\ external_sender[h] = Rq(g)
    \/ \E s \in BagToSet(sends) : s.to = Rq(g) \/ CarriesSender(s.imp, Rq(g))
    \/ \E c \in QIds : \E i \in 1..Len(queue[c]) : CarriesSender(queue[c][i], Rq(g))

\* the drive task of child h leaves its loop: its soma is dropped
DriveEnd(h) ==
    /\ ~panic
    /\ h \in nodes[OrgOf(h)]
    /\ drive[h] = "run"
    /\ queue[Ch(h)] = <<>>
    /\ ~SendersOfChild(h)
    /\ drive' = [drive EXCEPT ![h] = "ended"]
    /\ open' = [c \in QIds |->
                  IF c = Ch(h) \/ (h \in Orgs /\ c = Own(h)) THEN FALSE ELSE open[c]]
    /\ queue' = [c \in QIds |-> IF h \in Orgs /\ c = Own(h) THEN <<>> ELSE queue[c]]
    /\ UNCHANGED <<orgVars, sends, seed, top, panic, rtask, rpend, derr, leafVars, somaVars>>

\* the routing task of g leaves its loop: its clone of nodes and its
\* external_sender are dropped
RoutingEnd(g) ==
    /\ ~panic
    /\ rtask[g] = "run"
    /\ rpend[g] = <<>>
    /\ queue[Rq(g)] = <<>>
    /\ ~SendersOfQueue(g)
    /\ rtask' = [rtask EXCEPT ![g] = "ended"]
    /\ open' = [open EXCEPT ![Rq(g)] = FALSE]
    /\ UNCHANGED <<orgVars, queue, sends, seed, top, panic, rpend, drive, derr, leafVars,
                   somaVars>>

Next ==
    \/ Seed
    \/ SendTask
    \/ process_impulses
    \/ \E h \in Leaves : DriveLeaf(h)
    \/ \E h \in Children \ Leaves : DriveOrg(h)
    \/ \E h \in Children : DriveErrSend(h)
    \/ \E g \in Orgs : RoutingDequeue(g)
    \/ \E g \in Orgs : RoutingSend(g)
    \/ \E h \in Children : DriveEnd(h)
    \/ \E g \in Orgs : RoutingEnd(g)

Spec == Init /\ [][Next]_vars

(***************************************************************************)
(* The leaf helper on its own: a Eukaryote is built with some constraints  *)
(* and impulses are applied to it one after the other.  Eukaryote::update  *)
(* hands to the nucleus what the helper returns; the nucleus is user code  *)
(* and returns success or an error.                                        *)
(***************************************************************************)
Peers == {"h1", "h2"}

\* the constraints a helper is built with: (inputs, outputs)
Declarations ==
    {<<(<<C("RequireOne", "r"), C("Variadic", "v")>>), (<<C("RequireOne", "s")>>)>>,
     <<(<<C("Variadic", "v")>>), (<<C("Variadic", "w")>>)>>}

\* the impulses applied; role u is declared by no helper
SomaImpulses ==
    {InitImp(None, "me", "q", "p"), StartImp("p"), StopImp("p")}
    \cup {AddInput(h, role, "p") : h \in Peers, role \in {"r", "v", "u"}}
    \cup {AddOutput(h, role, "p") : h \in Peers, role \in {"s", "w", "u"}}
    \cup {SignalImp(h, m, "p") : h \in {"h1"}, m \in Msgs}
    \cup {Payload("h1", "h2", m, "p") : m \in Msgs}
    \cup {ProbeImp("me", "p"), ErrImp("h1", "failed", 1, "p")}

SomaInit ==
    /\ OrgInit("wired", Budget(0, 0, 0))
    /\ \E d \in Declarations : soma = SomaNew(d[1], d[2])
    /\ nucleus = <<>>
    /\ ret = NoRet
    /\ applied = <<>>

\* Eukaryote::update
EukaryoteUpdate(imp, nok) ==
    /\ Len(applied) < MaxImpulses
    /\ LET r == SomaUpdate(soma, imp)
       IN /\ soma' = r.soma
          /\ applied' = Append(applied, imp)
          /\ IF r.ok /\ r.some
             THEN /\ nucleus' = Append(nucleus, r.msg)
                  /\ ret' = [imp |-> imp, ok |-> nok, hok |-> TRUE, some |-> TRUE,
                             msg |-> r.msg]
             ELSE /\ nok
                  /\ UNCHANGED nucleus
                  /\ ret' = [imp |-> imp, ok |-> r.ok, hok |-> r.ok, some |-> FALSE,
                             msg |-> NoImp]
    /\ UNCHANGED <<orgVars, chanVars, taskVars, leafVars>>

SomaNext == \E imp \in SomaImpulses, nok \in BOOLEAN : EukaryoteUpdate(imp, nok)

SomaSpec == SomaInit /\ [][SomaNext]_vars

(***************************************************************************)
(* The hierarchy in which the nested organelle has a pending connection    *)
(* with an endpoint that is not one of its children.                       *)
(***************************************************************************)
RemoteInit ==
    /\ OrgInit("remote", Budget(MaxSend, MaxStop, MaxFail))
    /\ SomaIdle

RemoteSpec == RemoteInit /\ [][Next]_vars

(***************************************************************************)
(* The main queue with a Probe for the main soma on it: a holder of a      *)
(* clone of the organelle's sender sends Probe(main_hdl), which is one of  *)
(* the impulses process_impulses matches.                                  *)
(***************************************************************************)
ProbeArrives ==
    /\ ~panic
    /\ open[Own("O")]
    /\ HasRoom(Own("O"))
    /\ \A i \in DOMAIN queue[Own("O")] : queue[Own("O")][i].t # "Probe"
    /\ queue' = [queue EXCEPT ![Own("O")] =
           Append(@, ProbeImp(main_hdl["O"], Proto("O")))]
    /\ UNCHANGED <<orgVars, open, sends, taskVars, leafVars, somaVars>>

ProbeNext == Next \/ ProbeArrives

ProbeSpec == Init /\ [][ProbeNext]_vars

(***************************************************************************)
(* The reactor runs every task that can run: weak fairness of every task.  *)
(***************************************************************************)
Fairness ==
    /\ WF_vars(Seed)
    /\ WF_vars(SendTask)
    /\ WF_vars(process_impulses)
    /\ \A h \in Leaves : WF_vars(DriveLeaf(h))
    /\ \A h \in Children \ Leaves : WF_vars(DriveOrg(h))
    /\ \A h \in Children : WF_vars(DriveErrSend(h))
    /\ \A g \in Orgs : WF_vars(RoutingDequeue(g))
    /\ \A g \in Orgs : WF_vars(RoutingSend(g))
    /\ \A h \in Children : WF_vars(DriveEnd(h))
    /\ \A g \in Orgs : WF_vars(RoutingEnd(g))

FairSpec == Init /\ [][Next]_vars /\ Fairness

(***************************************************************************)
(* Properties                                                              *)
(***************************************************************************)
Range(f) == {f[i] : i \in DOMAIN f}

\* this step passes the impulse at the head of child h's channel to h's update
Observes(h) ==
    /\ drive[h] = "run"
    /\ queue[Ch(h)] # <<>>
    /\ queue'[Ch(h)] = Tail(queue[Ch(h)])

\* the number of AddInput/AddOutput impulses organelle g's connections
\* address to its child h
WiringFor(g, h) ==
    Cardinality({i \in DOMAIN connections[g] : connections[g][i].input = h})
    + Cardinality({i \in DOMAIN connections[g] : connections[g][i].output = h})

\* the same, with the wiring of the organelle itself when h is its main child
WiringAddressed(h) ==
    WiringFor(OrgOf(h), h)
    + (IF OrgOf(h) \in Children /\ h = main_hdl[OrgOf(h)]
       THEN WiringFor(OrgOf(OrgOf(h)), OrgOf(h)) ELSE 0)

WiringSeen(h) ==
    Cardinality({i \in DOMAIN obs[h] : obs[h][i] \in {"AddInput", "AddOutput"}})

\* C1: whenever a child's update is passed an impulse other than Init, the
\* child has been passed Init before; whenever it is passed Start, it has
\* been passed every AddInput/AddOutput addressed to it before.
C1_LifecycleOrder ==
    [][\A h \in Children :
         Observes(h) =>
           LET imp == Head(queue[Ch(h)])
           IN /\ imp.t # "Init" => "Init" \in Range(obs[h])
              /\ imp.t = "Start" => WiringSeen(h) = WiringAddressed(h)]_vars

\* the Payload a routing task has taken from its queue and is forwarding
Forwarding(g) == rpend[g] # <<>> /\ rpend[g][1].from.t = "Payload"

\* the channels of the scope that encloses organelle g
Enclosing(g) == IF g = "O" THEN {Own("O")} ELSE {c \in QIds : QProto(c) = Proto("O")}

\* C2: a Payload of the main child to a destination that is neither the
\* organelle nor one of its children is forwarded to the external sender as
\* Payload(organelle_hdl, dest, msg); no Payload or Signal in the enclosing
\* scope carries the main child's handle as its source.
C2_OutwardSourceIsOrganelle ==
    \A g \in Orgs :
      /\ Forwarding(g) =>
           LET p == rpend[g][1].from
               out == rpend[g][1]
           IN (p.src = main_hdl[g] /\ p.dest # effector[g].this_soma /\ p.dest \notin nodes[g])
                => /\ out.to = external_sender[g]
                   /\ out.imp.t = "Payload"
                   /\ out.imp.src = effector[g].this_soma
                   /\ out.imp.dest = p.dest
                   /\ out.imp.val = p.val
      /\ \A c \in Enclosing(g) : \A i \in DOMAIN queue[c] :
           queue[c][i].t \in {"Payload", "Signal"} => queue[c][i].src # main_hdl[g]

\* M has been handed a Signal that BM, the main child of B, sent: its source is B
C2_Witness ==
    \E i \in DOMAIN queue[Ch("M")] :
      queue[Ch("M")][i].t = "Signal" /\ queue[Ch("M")][i].src = "B"

\* C3: a Payload of the main child to the organelle or to one of its
\* children is delivered as Signal(main_hdl, msg).
C3_InwardSourceIsMain ==
    \A g \in Orgs :
      Forwarding(g) =>
        LET p == rpend[g][1].from
            out == rpend[g][1]
        IN (p.src = main_hdl[g] /\ (p.dest = effector[g].this_soma \/ p.dest \in nodes[g]))
             => /\ out.imp.t = "Signal"
                /\ out.imp.src = main_hdl[g]
                /\ out.imp.val = p.val
                /\ out.to = IF p.dest \in nodes[g] THEN Ch(p.dest) ELSE Ch(main_hdl[g])

\* the routing task of B is delivering to BX a Payload of the main child BM
C3_Witness ==
    /\ Forwarding("B")
    /\ rpend["B"][1].from.src = main_hdl["B"]
    /\ rpend["B"][1].to = Ch("BX")

\* C4: every Payload a routing task takes from its queue has as its source
\* a child of that organelle or the organelle itself.
C4_SourceIsLocal ==
    \A g \in Orgs :
      Forwarding(g) =>
        rpend[g][1].from.src \in nodes[g] \cup {effector[g].this_soma}

\* what the routing task of g is to do with Payload p: the channel and the
\* impulse, with the source as the routing task computes it
Selected(g, p) ==
    LET src == actual_src(g, p.src, p.dest)
    IN IF p.dest = effector[g].this_soma
       THEN [to |-> Ch(main_hdl[g]), t |-> "Signal", src |-> src, dest |-> None, val |-> p.val]
       ELSE IF p.dest \in nodes[g]
       THEN [to |-> Ch(p.dest), t |-> "Signal", src |-> src, dest |-> None, val |-> p.val]
       ELSE [to |-> external_sender[g], t |-> "Payload", src |-> src, dest |-> p.dest,
             val |-> p.val]

Shape(to, imp) ==
    [to |-> to, t |-> imp.t, src |-> imp.src, dest |-> imp.dest, val |-> imp.val]

\* the routing task of g ends the send of a Payload in this step
EndsForward(g) == Forwarding(g) /\ rpend'[g] = <<>>

\* the send of the routing task of g has put its impulse at the end of the
\* selected channel and has changed no other channel
Delivered(g) ==
    LET out == rpend[g][1]
    IN /\ Shape(out.to, out.imp) = Selected(g, out.from)
       /\ queue' = [queue EXCEPT ![out.to] = Append(@, out.imp)]
       /\ rtask' = rtask

\* C5 as stated: every Payload taken from the routing queue ends as exactly
\* one impulse, the selected one, in the selected channel.
C5_ExactlyOne ==
    [][\A g \in Orgs : EndsForward(g) => Delivered(g)]_vars

\* C5: it does when the receiver of the selected channel is alive; when that
\* receiver has been dropped, no channel receives anything and the routing
\* task ends.
C5_ExactlyOneIfOpen ==
    [][\A g \in Orgs :
         EndsForward(g) =>
           IF open[rpend[g][1].to]
           THEN Delivered(g)
           ELSE /\ \A c \in QIds \ {Rq(g)} : queue'[c] = queue[c]
                /\ rtask'[g] = "dead"]_vars

\* a routing task is forwarding a Payload to a channel whose receiver was dropped
C5_Witness == \E g \in Orgs : Forwarding(g) /\ ~open[rpend[g][1].to]

\* every RequireOne slot of a role map holds one handle
Filled(map) ==
    \A role \in DOMAIN map : map[role].c = "RequireOne" => Len(map[role].hs) = 1

\* C6: the helper's handling of Start succeeds exactly when Init was applied
\* before it and every RequireOne role, input and output, holds one handle;
\* the nucleus has been passed Start only if that is so.
C6_StartVerified ==
    LET InitEarlier == \E i \in 1..(Len(applied) - 1) : applied[i].t = "Init"
        ready == InitEarlier /\ Filled(soma.inputs) /\ Filled(soma.outputs)
    IN /\ ret.imp.t = "Start" => (ret.hok <=> ready)
       /\ (\E i \in DOMAIN nucleus : nucleus[i].t = "Start") => ready

\* a helper with RequireOne roles has handled Start and passed it to the nucleus
C6_Witness ==
    /\ ret.imp.t = "Start" /\ ret.hok
    /\ "r" \in DOMAIN soma.inputs /\ "s" \in DOMAIN soma.outputs
    /\ nucleus # <<>> /\ nucleus[Len(nucleus)].t = "Start"

\* the leaf children of the outermost organelle
DirectLeaves == {"M"}

\* the leaf children of the nested organelle
NestedLeaves == {"BM", "BX"}

\* the top-level loop returns in this step
TopResolves(state) == top.state = "running" /\ top'.state = state

C8_NestedErrorFailsTop ==
    /\ [][\A h \in NestedLeaves :
            (drive[h] = "errsend" /\ drive'[h] = "done")
              => \E i \in DOMAIN queue'[Rq("B")] :
                   queue'[Rq("B")][i].t = "Err" /\ queue'[Rq("B")][i].src = h]_vars
    /\ \A h \in NestedLeaves : (drive[h] = "errsend") ~> (top.state = "err")

\* C9: the top-level loop returns success when it takes a Stop, and once it
\* has, no leaf is passed an impulse.
C9_NoUpdateAfterStop ==
    [][/\ (top.state = "running" /\ top' # top /\ Head(queue[Own("O")]).t = "Stop")
            => top'.state = "ok"
       /\ top.state = "ok" => \A h \in Leaves : ~Observes(h)]_vars

\* a Stop is on a routing queue
StopQueued ==
    \E g \in Orgs : \E i \in DOMAIN queue[Rq(g)] : queue[Rq(g)][i].t = "Stop"

\* an Err has reached the queue of the top-level loop
ErrAtTop ==
    top.state = "err" \/ \E i \in DOMAIN queue[Own("O")] : queue[Own("O")][i].t = "Err"

\* C10: a Stop on a routing queue leads to the top-level future resolving
\* successfully, unless an Err reaches the top-level queue.
C10_StopResolves == StopQueued ~> (top.state = "ok" \/ ErrAtTop)

\* the number of impulses of type t in a sequence of impulses
Holds(q, t) == Cardinality({i \in DOMAIN q : q[i].t = t})

\* the number of send tasks that carry an impulse of type t to channel c
Sending(c, t) ==
    LET ts == {s \in BagToSet(sends) : s.to = c /\ s.imp.t = t}
    IN BagCardinality([s \in ts |-> CopiesIn(s, sends)])

\* the number of times type t occurs in the history of child h
Seen(h, t) == Cardinality({i \in DOMAIN obs[h] : obs[h][i] = t})

\* the impulses of type t for child h: being sent, in its channel, passed to it
Issued(h, t) == Sending(Ch(h), t) + Holds(queue[Ch(h)], t) + Seen(h, t)

IsInitOrStart(t) == t \in {"Init", "Start"}

\* organelle g has been passed one Init and then one Start
Received(g) ==
    IF g = "O"
    THEN /\ seed = "done" /\ top.state = "running" /\ effector["O"] # NoEffector
         /\ Holds(queue[Own("O")], "Init") + Holds(queue[Own("O")], "Start") = 0
    ELSE SelectSeq(obs[g], IsInitOrStart) = <<"Init", "Start">>

\* the Init of child h is the one init builds for it
InitFor(h, imp) ==
    /\ imp.src = effector[OrgOf(h)].this_soma
    /\ imp.dest = h
    /\ imp.val = Rq(OrgOf(h))

\* C11: once an organelle has been passed Init and then Start, each of its
\* children has one Init and one Start that it was passed or is still to be
\* passed (none is lost, none is issued twice), and the Init carries the
\* organelle's handle as parent, the child's handle as this_soma and the
\* routing queue as sender.
C11_ChildrenReceive ==
    \A h \in Children :
      (Received(OrgOf(h)) /\ h \in nodes[OrgOf(h)]) =>
        /\ Issued(h, "Init") = 1 /\ Issued(h, "Start") = 1
        /\ \A s \in BagToSet(sends) :
             (s.to = Ch(h) /\ s.imp.t = "Init") => InitFor(h, s.imp)
        /\ \A i \in DOMAIN queue[Ch(h)] :
             queue[Ch(h)][i].t = "Init" => InitFor(h, queue[Ch(h)][i])

\* the two sends the i-th pending connection of organelle g calls for
OutputSend(g, i) ==
    LET c == connections[g][i]
    IN Task(Ch(c.input), AddOutput(c.output, c.role, Proto(g)))

InputSend(g, i) ==
    LET c == connections[g][i]
    IN Task(Ch(c.output), AddInput(c.input, c.role, Proto(g)))

WiringSends(g) ==
    {OutputSend(g, i) : i \in DOMAIN connections[g]}
    \cup {InputSend(g, i) : i \in DOMAIN connections[g]}

\* how many times the pending connections of g call for send t
CalledFor(g, t) ==
    Cardinality({i \in DOMAIN connections[g] : OutputSend(g, i) = t})
    + Cardinality({i \in DOMAIN connections[g] : InputSend(g, i) = t})

\* organelle g ends its init in this step
InitStep(g) == effector[g] = NoEffector /\ effector'[g] # NoEffector

\* C12: the pending connections stay as connect left them; before an
\* organelle has handled Init, no AddInput/AddOutput of its pending
\* connections is being sent or is in a channel, and its children have been
\* passed none when it is the outermost one; the step that handles Init
\* issues, for every pending (input, output, role), one AddOutput(output,
\* role) to the channel of input and one AddInput(input, role) to the channel
\* of output, and no other AddInput/AddOutput.
C12_ConnectionsAtInit ==
    /\ [](\A g \in Orgs :
            effector[g] = NoEffector =>
              /\ \A t \in WiringSends(g) :
                   /\ ~BagIn(t, sends)
                   /\ \A i \in DOMAIN queue[t.to] : queue[t.to][i] # t.imp
              /\ g = "O" => \A h \in nodes[g] :
                              Seen(h, "AddInput") + Seen(h, "AddOutput") = 0)
    /\ [][/\ connections' = connections
          /\ \A g \in Orgs :
               InitStep(g) =>
                 LET new == sends' (-) sends
                     wiring == {t \in BagToSet(new) : t.imp.t \in {"AddInput", "AddOutput"}}
                 IN \A t \in wiring \cup WiringSends(g) :
                      CopiesIn(t, new) = CalledFor(g, t)]_vars

\* O has handled Init with M connected to B: M was passed the AddOutput and
\* B the AddInput of that connection
C12_Witness ==
    /\ connections["O"] # <<>>
    /\ Seen("M", "AddOutput") = 1 /\ Seen("B", "AddInput") = 1

\* organelle g is passed Init in this step
HandlesInit(g) ==
    IF g = "O"
    THEN /\ top.state = "running" /\ ~panic /\ queue[Own("O")] # <<>>
         /\ Head(queue[Own("O")]).t = "Init"
         /\ top' # top \/ queue'[Own("O")] = Tail(queue[Own("O")])
    ELSE Observes(g) /\ Head(queue[Ch(g)]).t = "Init"

\* C13: an organelle that is passed Init ends its init with success, whatever
\* the endpoints of its pending connections: it holds its effector, its
\* routing task is spawned, and the task that runs it goes on.
C13_InitSucceeds ==
    [][\A g \in Orgs :
         HandlesInit(g) =>
           /\ effector'[g] # NoEffector
           /\ rtask'[g] = "run"
           /\ IF g = "O" THEN top'.state = "running" ELSE drive'[g] = "run"]_vars

\* the update of organelle g is passed, in this step, the impulse at the
\* head of the channel its task reads
Updates(g) ==
    IF g = "O"
    THEN /\ top.state = "running" /\ ~panic /\ queue[Own("O")] # <<>>
         /\ top' # top \/ queue'[Own("O")] = Tail(queue[Own("O")])
    ELSE Observes(g)

Feed(g) == IF g = "O" THEN Own("O") ELSE Ch(g)

\* C14: the step in which the update of an organelle is passed AddInput,
\* AddOutput or Signal issues one send, of that impulse to the channel of
\* the main child, and nothing else: no other send, no change of a channel
\* but the one the impulse is taken from, and nodes, connections and
\* main_hdl as they were.
C14_ForwardToMain ==
    [][\A g \in Orgs :
         (Updates(g) /\ Head(queue[Feed(g)]).t \in {"AddInput", "AddOutput", "Signal"})
           => LET imp == Head(queue[Feed(g)])
                  new == sends' (-) sends
              IN /\ BagCardinality(new) = 1
                 /\ \A t \in BagToSet(new) :
                      /\ t.to = Ch(main_hdl[g])
                      /\ t.imp.t = imp.t /\ t.imp.src = imp.src
                      /\ t.imp.dest = imp.dest /\ t.imp.val = imp.val
                 /\ sends (-) sends' = EmptyBag
                 /\ \A c \in QIds \ {Feed(g)} : queue'[c] = queue[c]
                 /\ nodes' = nodes /\ connections' = connections
                 /\ main_hdl' = main_hdl]_vars

\* B, which holds BM and BX, was passed a Signal and its main child BM has it
C14_Witness ==
    /\ nodes["B"] = {"BM", "BX"}
    /\ \E i \in DOMAIN queue[Ch("BM")] :
         queue[Ch("BM")][i].t = "Signal" /\ queue[Ch("BM")][i].src = "M"

\* C15: every Payload the top-level loop takes from its queue is addressed
\* to the main child, and the loop does not panic on it.
C15_PayloadForMain ==
    [][(Updates("O") /\ Head(queue[Own("O")]).t = "Payload")
         => /\ Head(queue[Own("O")]).dest = main_hdl["O"]
            /\ ~panic']_vars

\* C16: the top-level loop takes a Probe for the main child without a
\* panic and goes on running.
C16_ProbeAccepted ==
    [][(/\ Updates("O")
        /\ Head(queue[Own("O")]).t = "Probe"
        /\ Head(queue[Own("O")]).dest = main_hdl["O"])
         => ~panic' /\ top'.state = "running"]_vars

\* the helper is applied an impulse in this step
Applies == applied' # applied

\* a RequireOne role of the map holds a handle
Bound(map, role) ==
    role \in DOMAIN map /\ map[role].c = "RequireOne" /\ Len(map[role].hs) >= 1

\* C17: an AddInput (AddOutput) that names a role the inputs (outputs) do not
\* declare, or a RequireOne role that holds a handle, returns an error and
\* leaves the helper as it was; no RequireOne role ever holds more than one
\* handle.
C17_RejectedBinding ==
    /\ [](\A role \in DOMAIN soma.inputs :
            soma.inputs[role].c = "RequireOne" => Len(soma.inputs[role].hs) <= 1)
    /\ [](\A role \in DOMAIN soma.outputs :
            soma.outputs[role].c = "RequireOne" => Len(soma.outputs[role].hs) <= 1)
    /\ [][Applies =>
            LET imp == ret'.imp
            IN /\ (/\ imp.t = "AddInput"
                   /\ imp.val \notin DOMAIN soma.inputs \/ Bound(soma.inputs, imp.val))
                    => ~ret'.hok /\ soma' = soma
               /\ (/\ imp.t = "AddOutput"
                   /\ imp.val \notin DOMAIN soma.outputs \/ Bound(soma.outputs, imp.val))
                    => ~ret'.hok /\ soma' = soma]_vars

\* a second handle for the RequireOne input r was refused: r keeps the first
C17_Witness ==
    /\ ret.imp.t = "AddInput" /\ ret.imp.val = "r" /\ ret.imp.src = "h2"
    /\ ~ret.hok
    /\ Bound(soma.inputs, "r") /\ soma.inputs["r"].hs = <<"h1">>

\* the handles of the impulses of type t applied for a role, in order
HandlesFor(t, role) ==
    LET for == SelectSeq(applied, LAMBDA imp : imp.t = t /\ imp.val = role)
    IN [i \in 1..Len(for) |-> for[i].src]

\* C18: for a Variadic role, var_input (var_output) returns the handles of
\* the AddInput (AddOutput) impulses applied for that role, in the order in
\* which they were applied.
C18_VariadicOrder ==
    /\ \A role \in DOMAIN soma.inputs :
         soma.inputs[role].c = "Variadic" =>
           get_var(soma.inputs, role) = [ok |-> TRUE, cells |-> HandlesFor("AddInput", role)]
    /\ \A role \in DOMAIN soma.outputs :
         soma.outputs[role].c = "Variadic" =>
           get_var(soma.outputs, role) = [ok |-> TRUE, cells |-> HandlesFor("AddOutput", role)]

\* three handles were bound to the Variadic input v, one of them twice, and
\* one more impulse was applied
C18_Witness ==
    /\ "v" \in DOMAIN soma.inputs
    /\ get_var(soma.inputs, "v").cells = <<"h2", "h1", "h2">>
    /\ Len(applied) = 4

\* C19: update returns None for an Init, AddInput or AddOutput it accepts,
\* Some(Start) for a Start it accepts, and for every other impulse Some of
\* that impulse, with the helper as it was.
C19_UpdateResult ==
    [][Applies =>
         LET imp == ret'.imp
         IN /\ (imp.t \in {"Init", "AddInput", "AddOutput"} /\ ret'.hok)
                 => ~ret'.some /\ nucleus' = nucleus
            /\ (imp.t = "Start" /\ ret'.hok)
                 => ret'.some /\ ret'.msg = StartImp(imp.proto)
            /\ imp.t \notin Lifecycle
                 => /\ ret'.hok /\ ret'.some /\ ret'.msg = imp
                    /\ soma' = soma
                    /\ nucleus' = Append(nucleus, imp)]_vars

\* a Payload was applied to a helper that holds bindings, and came back
C19_Witness ==
    /\ ret.imp.t = "Payload" /\ ret.some /\ ret.msg = ret.imp
    /\ Bound(soma.inputs, "r")

\* the impulses the routing task has an arm for
Routed == {"Payload", "Probe", "Stop", "Err"}

\* the routing task of g takes an impulse from its queue in this step
RoutingTakes(g) ==
    /\ rtask[g] = "run" /\ rpend[g] = <<>> /\ queue[Rq(g)] # <<>>
    /\ queue'[Rq(g)] = Tail(queue[Rq(g)])

\* C20: every impulse in a routing queue, and every impulse being sent to
\* one, is a Payload, a Probe, a Stop or an Err; the routing task never
\* panics on the impulse it takes.
C20_RoutingQueueKinds ==
    /\ [](\A g \in Orgs :
            /\ \A i \in DOMAIN queue[Rq(g)] : queue[Rq(g)][i].t \in Routed
            /\ \A s \in BagToSet(sends) : s.to = Rq(g) => s.imp.t \in Routed
            /\ \A f \in Orgs : (rpend[f] # <<>> /\ rpend[f][1].to = Rq(g))
                                 => rpend[f][1].imp.t \in Routed)
    /\ [][\A g \in Orgs : RoutingTakes(g) => panic' = panic]_vars

\* the routing queue of O holds a Payload that the routing task of the
\* nested organelle B forwarded, a leaf having put it on B's routing queue
C20_Witness ==
    \E i \in DOMAIN queue[Rq("O")] :
      queue[Rq("O")][i].t = "Payload" /\ queue[Rq("O")][i].src = "B"


(***************************************************************************)
(* Termination after the outermost organelle has stopped.                  *)
(***************************************************************************)
\* the top-level future has resolved: the outermost organelle is dropped
Stopped == top.state # "running"

\* no task can take a step any more: what is alive now stays alive
Quiescent == ~ENABLED Next

\* the tasks still alive, and the children whose channel still has a sender
AliveDrives == {h \in Children : h \in nodes[OrgOf(h)] /\ drive[h] \in {"run", "errsend"}}
AliveRoutings == {g \in Orgs : rtask[g] = "run"}
HeldChildren == {h \in Children : h \in nodes[OrgOf(h)] /\ SendersOfChild(h)}

\* C21: after the outermost organelle has stopped, every child's inbound
\* senders are dropped and every drive task and routing task has ended by
\* the time the program has nothing left to do: no task is kept alive for
\* ever by the senders the routing task and the children hold of each other
C21_TasksEnd ==
    (Stopped /\ ~panic /\ Quiescent)
        => (AliveDrives = {} /\ AliveRoutings = {} /\ HeldChildren = {})


(***************************************************************************)
(* A child whose update returns an error.                                  *)
(***************************************************************************)
\* an impulse is taken from h's channel and passed to h's update
Updated(h) ==
    /\ open[Ch(h)] /\ open'[Ch(h)]
    /\ queue[Ch(h)] # <<>>
    /\ queue'[Ch(h)] = Tail(queue[Ch(h)])

\* h's update has just returned an error
ErrorReturned(h) == derr'[h] # derr[h] /\ derr'[h] # NoErr

\* the Err impulses of child h in the own channel of its organelle
ErrsOf(h, q) == Len(SelectSeq(q, LAMBDA imp : imp.t = "Err" /\ imp.src = h))

\* the step of h's drive task leaves every other child's task as it was
OthersUntouched(h) ==
    \A k \in Children \ {h} :
        /\ drive'[k] = drive[k]
        /\ queue'[Ch(k)] = queue[Ch(k)]
        /\ open'[Ch(k)] = open[Ch(k)]
        /\ obs'[k] = obs[k]

\* C22: when a child's update returns an error its drive task sends one Err
\* on the organelle's own channel and returns; nothing is passed to that
\* child's update afterwards, whatever is queued in or sent to its channel,
\* and the other children's drive tasks are left as they were
C22_ErrorEndsDrive ==
    [][\A h \in Children :
        LET c == Own(OrgOf(h))
        IN /\ ErrorReturned(h) =>
                /\ drive[h] = "run" /\ drive'[h] = "errsend"
                /\ derr'[h].t = "Err" /\ derr'[h].src = h
                /\ OthersUntouched(h)
           /\ drive[h] = "errsend" =>
                /\ ~Updated(h)
                /\ drive'[h] \in {"errsend", "done"}
                /\ drive'[h] = "done" =>
                     /\ queue'[c] = IF open[c] THEN Append(queue[c], derr[h]) ELSE queue[c]
                     /\ ~open'[Ch(h)]
                     /\ OthersUntouched(h)
           /\ drive[h] = "done" =>
                /\ ~Updated(h)
                /\ drive'[h] = "done"
                /\ obs'[h] = obs[h]
                /\ h \in Leaves => leaf'[h] = leaf[h]
           /\ ErrsOf(h, queue'[c]) > ErrsOf(h, queue[c]) =>
                /\ drive[h] = "errsend" /\ drive'[h] = "done"
                /\ ErrsOf(h, queue'[c]) = ErrsOf(h, queue[c]) + 1]_vars

\* a child's task has returned after an error, its one Err is in the own
\* channel of its organelle, a further impulse is being sent to it, and
\* another child still has impulses to take
C22_Witness ==
    \E h \in Children :
        /\ drive[h] = "done"
        /\ ErrsOf(h, queue[Own(OrgOf(h))]) = 1
        /\ \E s \in BagToSet(sends) : s.to = Ch(h)
        /\ \E k \in Children \ {h} : drive[k] = "run" /\ queue[Ch(k)] # <<>>


(***************************************************************************)
(* Payloads on their way when no update returns an error: the leaves' user *)
(* code emits Payloads only, and every task is scheduled again and again.  *)
(***************************************************************************)
FlowInit ==
    /\ \E build \in Builds : OrgInit(build, Budget(MaxFlow, 0, 0))
    /\ SomaIdle

FlowSpec == FlowInit /\ [][Next]_vars /\ Fairness

\* organelle g delivers a Payload for dest itself: dest is one of its
\* children or its own handle
Local(g, dest) == effector[g] # NoEffector /\ (dest = effector[g].this_soma \/ dest \in nodes[g])

\* a Payload for a local recipient is on its way to the routing queue of g
\* or in it, or the Signal made of it is being sent by the routing task, is
\* in the recipient's channel, or is being forwarded by a nested organelle
\* to its main child
OnItsWay(g) ==
    \/ \E s \in BagToSet(sends) :
          s.to = Rq(g) /\ s.imp.t = "Payload" /\ Local(g, s.imp.dest)
    \/ \E i \in DOMAIN queue[Rq(g)] :
          queue[Rq(g)][i].t = "Payload" /\ Local(g, queue[Rq(g)][i].dest)
    \/ rpend[g] # <<>> /\ rpend[g][1].imp.t = "Signal"
    \/ \E h \in nodes[g] :
          \/ \E i \in DOMAIN queue[Ch(h)] : queue[Ch(h)][i].t = "Signal"
          \/ \E s \in BagToSet(sends) : s.to = Ch(h) /\ s.imp.t = "Signal"

\* some update has returned an error
UpdateFailed == \E h \in Children : drive[h] \in {"errsend", "done"}

\* C23: with every task scheduled fairly and no update returning an error,
\* every Payload a child emits for a local child or for its organelle's
\* handle is in the end passed to the recipient's update as a Signal: none
\* stays on its way for ever
C23_LocalPayloadsArrive ==
    \A g \in Orgs : OnItsWay(g) ~> (~OnItsWay(g) \/ UpdateFailed)

====
